---- MODULE Spec2Model ----
(***************************************************************************)
(* Labyrinth backend: the user/room/riddle store (src/src/db.rs), the      *)
(* hardware-authenticator ceremonies (src/backend/src/webauthn.rs) and the *)
(* request handlers that drive them.                                       *)
(*                                                                         *)
(* The store is three collections.  `users` maps a username to its user    *)
(* document, `rooms` is the room collection in natural order, `riddles`    *)
(* maps a riddle id to its document.  An Option<T> is a sequence of length *)
(* at most one: <<>> is None, <<x>> is Some(x).  A Result is a record with *)
(* a field ok.                                                             *)
(***************************************************************************)
EXTENDS Integers, Sequences, FiniteSets, TLC

VARIABLES users, rooms, riddles, issued, nextChallenge, last, inflight

vars == <<users, rooms, riddles, issued, nextChallenge, last, inflight>>

----------------------------------------------------------------------------
(* Bounds of the model *)

\* rooms_entered is capped at this length
MaxEntered == 3
\* challenges generated by the authenticator library are numbered 1..MaxChallenges
MaxChallenges == 2
\* signature counters range over 0..MaxCounter
MaxCounter == 2
\* webauthn_credentials is capped at this length
MaxCreds == 2

----------------------------------------------------------------------------
(* Option and Result *)

None == <<>>
Some(x) == <<x>>
IsSome(o) == Len(o) = 1
IsNone(o) == Len(o) = 0
Unwrap(o) == o[1]

Ok(v) == [ok |-> TRUE, val |-> v]
Err(e) == [ok |-> FALSE, err |-> e]

----------------------------------------------------------------------------
(* Input domains *)

Usernames == {"alice"}
RoomIds == {1, 2, 3}
RiddleIds == {5, 7, 8, 9}
Factors == {"Totp", "Fido2"}
CredIds == {"k1", "k2"}

\* a string is a sequence of characters
Chars == {"a", "A", "b", "B"}
Submissions == {<<"a", "b">>, <<"A", "b">>, <<"a", "B">>, <<"b">>, <<"B">>, <<"a">>}

\* char::to_lowercase on the characters used
LowerChar(c) == CASE c = "A" -> "a" [] c = "B" -> "b" [] OTHER -> c
ToLower(s) == [i \in 1..Len(s) |-> LowerChar(s[i])]

----------------------------------------------------------------------------
(* Error texts: the Display strings of error.rs *)

MongoQueryError == "error during mongodb query"

UserNotFoundError == "user not found"
RoomNotFoundError == "room not found"
RiddleNotFoundError == "riddle not found"
RoomBehindNotFoundError == "room behind not found"
RiddleNotSolvedError == "riddle not solved"
WrongCredentialsError == "wrong credentials"
TotpMissingError == "TOTP missing"
UserNowhereMessage == "User is nowhere. That should not have happened :-/"
DoorwayNotAccessibleMessage == "doorway not accessible"

----------------------------------------------------------------------------
(* Documents *)

Direction(d, r) == [direction |-> d, riddle_id |-> r]

Room(id, neighbors, entry) == [id |-> id, neighbors |-> neighbors, entry |-> entry]

Riddle(id, difficulty, level, ignore_case, solution) ==
    [id |-> id, difficulty |-> difficulty, level |-> level,
     ignore_case |-> ignore_case, solution |-> solution]

\* variant: a new user starts out awaiting the second factor
NewUserAwaiting(username, second_factor, pin) ==
    [username |-> username,
     pin |-> pin,
     activated |-> FALSE,
     registered |-> None,
     last_login |-> None,
     solved |-> <<>>,
     rooms_entered |-> <<>>,
     level |-> 0,
     score |-> 0,
     in_room |-> None,
     awaiting_second_factor |-> TRUE,
     second_factors |-> {second_factor},
     totp_key |-> <<>>,
     recovery_keys |-> <<>>,
     webauthn_registration_state |-> None,
     webauthn_authentication_state |-> None,
     webauthn_credentials |-> <<>>]

\* User::new
NewUser(username, second_factor, pin) ==
    [username |-> username,
     pin |-> pin,
     activated |-> FALSE,
     registered |-> None,
     last_login |-> None,
     solved |-> <<>>,
     rooms_entered |-> <<>>,
     level |-> 0,
     score |-> 0,
     in_room |-> None,
     awaiting_second_factor |-> FALSE,
     second_factors |-> {second_factor},
     totp_key |-> <<>>,
     recovery_keys |-> <<>>,
     webauthn_registration_state |-> None,
     webauthn_authentication_state |-> None,
     webauthn_credentials |-> <<>>]

----------------------------------------------------------------------------
(* The room graph and the riddles the store is loaded with *)

RoomsWithEntry ==
    << Room(1, <<Direction("north", 7), Direction("east", 8), Direction("west", 9)>>, Some(TRUE)),
       Room(2, <<Direction("south", 7), Direction("north", 8), Direction("east", 5)>>, None),
       Room(3, <<Direction("west", 8), Direction("south", 8)>>, Some(FALSE)) >>

RoomsWithoutEntry ==
    [i \in 1..Len(RoomsWithEntry) |-> [RoomsWithEntry[i] EXCEPT !.entry = None]]

RoomLayouts == {RoomsWithEntry, RoomsWithoutEntry}

\* riddle 5 is named by a doorway and has no document
StoredRiddles ==
    (7 :> Riddle(7, 2, 1, Some(TRUE), <<"A", "b">>))
    @@ (8 :> Riddle(8, 1, 1, None, <<"b">>))
    @@ (9 :> Riddle(9, 3, 2, Some(FALSE), <<"a">>))

----------------------------------------------------------------------------
(* Store queries of db.rs *)

\* Iterator::find and find_one: hits[i] says whether the i-th element matches;
\* the index of the first match, 0 if there is none
FirstIndex(hits) ==
    IF \E i \in 1..Len(hits) : hits[i]
    THEN CHOOSE i \in 1..Len(hits) : hits[i] /\ \A j \in 1..(i - 1) : ~hits[j]
    ELSE 0

\* the elements of seq marked by the test applied to each
Hits(seq, Test(_)) == [i \in 1..Len(seq) |-> Test(seq[i])]

GetUser(coll, username) ==
    IF username \in DOMAIN coll THEN Ok(coll[username]) ELSE Err(UserNotFoundError)

GetRoom(coll, oid) ==
    LET Match(room) == room.id = oid
        i == FirstIndex(Hits(coll, Match))
    IN IF i # 0 THEN Ok(coll[i]) ELSE Err(RoomNotFoundError)

\* variant: find_one without the _id filter answers the first riddle document
GetRiddleByOidUnfiltered(coll, oid) ==
    IF DOMAIN coll # {}
    THEN Ok(Some(coll[CHOOSE id \in DOMAIN coll : \A other \in DOMAIN coll : id <= other]))
    ELSE Ok(None)

GetRiddleByOid(coll, oid) ==
    IF oid \in DOMAIN coll THEN Ok(Some(coll[oid])) ELSE Ok(None)

\* variant: the room behind is looked up by the riddle alone, whatever the label
GetRoomBehindAnyDirection(coll, opposite, riddle_id) ==
    LET ElemMatch(room) ==
            \E k \in 1..Len(room.neighbors) : room.neighbors[k].riddle_id = riddle_id
        i == FirstIndex(Hits(coll, ElemMatch))
    IN IF i # 0 THEN Ok(coll[i]) ELSE Err(RoomBehindNotFoundError)

GetRoomBehind(coll, opposite, riddle_id) ==
    LET ElemMatch(room) ==
            \E k \in 1..Len(room.neighbors) :
                /\ room.neighbors[k].direction = opposite
                /\ room.neighbors[k].riddle_id = riddle_id
        i == FirstIndex(Hits(coll, ElemMatch))
    IN IF i # 0 THEN Ok(coll[i]) ELSE Err(RoomBehindNotFoundError)

\* the triple (Option<ObjectId>, Option<User>, Option<String>)
Triple(riddle_id, user, message) ==
    [riddle_id |-> riddle_id, user |-> user, message |-> message]

\* variant: a riddle on more than one doorway of the room is refused
IsRiddleAccessibleUniqueDoorway(coll_users, coll_rooms, coll_riddles, oid, username) ==
    LET user == GetUser(coll_users, username)
    IN IF ~user.ok THEN Triple(None, None, Some(user.err))
       ELSE IF IsNone(user.val.in_room) THEN Triple(None, None, Some(UserNowhereMessage))
       ELSE LET room == GetRoom(coll_rooms, Unwrap(user.val.in_room))
            IN IF ~room.ok THEN Triple(None, None, Some(room.err))
               ELSE LET matching == {k \in 1..Len(room.val.neighbors) :
                                        room.val.neighbors[k].riddle_id = oid}
                    IN IF Cardinality(matching) # 1
                       THEN Triple(None, None, Some(DoorwayNotAccessibleMessage))
                       ELSE Triple(Some(oid), Some(user.val), None)

\* variant: the denial for a missing doorway still hands the user back
IsRiddleAccessibleDenialWithUser(coll_users, coll_rooms, coll_riddles, oid, username) ==
    LET user == GetUser(coll_users, username)
    IN IF ~user.ok THEN Triple(None, None, Some(user.err))
       ELSE IF IsNone(user.val.in_room) THEN Triple(None, None, Some(UserNowhereMessage))
       ELSE LET room == GetRoom(coll_rooms, Unwrap(user.val.in_room))
            IN IF ~room.ok THEN Triple(None, None, Some(room.err))
               ELSE LET Match(neighbor) == neighbor.riddle_id = oid
                        found == FirstIndex(Hits(room.val.neighbors, Match))
                    IN IF found = 0
                       THEN Triple(None, Some(user.val), Some(DoorwayNotAccessibleMessage))
                       ELSE Triple(Some(room.val.neighbors[found].riddle_id),
                                   Some(user.val), None)

\* variant: only the first doorway of the room is compared
IsRiddleAccessibleFirstDoorway(coll_users, coll_rooms, coll_riddles, oid, username) ==
    LET user == GetUser(coll_users, username)
    IN IF ~user.ok THEN Triple(None, None, Some(user.err))
       ELSE IF IsNone(user.val.in_room) THEN Triple(None, None, Some(UserNowhereMessage))
       ELSE LET room == GetRoom(coll_rooms, Unwrap(user.val.in_room))
            IN IF ~room.ok THEN Triple(None, None, Some(room.err))
               ELSE IF Len(room.val.neighbors) = 0 \/ room.val.neighbors[1].riddle_id # oid
                    THEN Triple(None, None, Some(DoorwayNotAccessibleMessage))
                    ELSE Triple(Some(room.val.neighbors[1].riddle_id), Some(user.val), None)

\* variant: the riddle document is fetched before the doorways are compared
IsRiddleAccessibleFetchesRiddle(coll_users, coll_rooms, coll_riddles, oid, username) ==
    LET user == GetUser(coll_users, username)
    IN IF ~user.ok THEN Triple(None, None, Some(user.err))
       ELSE IF IsNone(user.val.in_room) THEN Triple(None, None, Some(UserNowhereMessage))
       ELSE LET room == GetRoom(coll_rooms, Unwrap(user.val.in_room))
            IN IF ~room.ok THEN Triple(None, None, Some(room.err))
               ELSE IF oid \notin DOMAIN coll_riddles
               THEN Triple(None, None, Some(RiddleNotFoundError))
               ELSE LET Match(neighbor) == neighbor.riddle_id = oid
                        found == FirstIndex(Hits(room.val.neighbors, Match))
                    IN IF found = 0
                       THEN Triple(None, None, Some(DoorwayNotAccessibleMessage))
                       ELSE Triple(Some(room.val.neighbors[found].riddle_id),
                                   Some(user.val), None)

IsRiddleAccessible(coll_users, coll_rooms, coll_riddles, oid, username) ==
    LET user == GetUser(coll_users, username)
    IN IF ~user.ok THEN Triple(None, None, Some(user.err))
       ELSE IF IsNone(user.val.in_room) THEN Triple(None, None, Some(UserNowhereMessage))
       ELSE LET room == GetRoom(coll_rooms, Unwrap(user.val.in_room))
            IN IF ~room.ok THEN Triple(None, None, Some(room.err))
               ELSE LET Match(neighbor) == neighbor.riddle_id = oid
                        found == FirstIndex(Hits(room.val.neighbors, Match))
                    IN IF found = 0
                       THEN Triple(None, None, Some(DoorwayNotAccessibleMessage))
                       ELSE Triple(Some(room.val.neighbors[found].riddle_id),
                                   Some(user.val), None)

GetUserWithPin(coll, username, pin) ==
    IF /\ username \in DOMAIN coll
       /\ coll[username].pin = Some(pin)
       /\ ~coll[username].activated
    THEN Ok(coll[username])
    ELSE Err(UserNotFoundError)

----------------------------------------------------------------------------
(* Store updates of db.rs.  update_one changes the first document matching *)
(* the filter, changes nothing when none matches, and is Ok either way.    *)

Written(coll) == [store |-> coll, result |-> Ok(<<>>)]

\* an update the driver answers with an error: nothing is written
Unreachable(coll) == [store |-> coll, result |-> Err(MongoQueryError)]

\* filter { _id, activated: true }
MatchesActivated(coll, username) ==
    username \in DOMAIN coll /\ coll[username].activated

\* variant: the solutions are pushed onto the stored list instead of replacing it
SetUserSolvedPush(coll, solutions, user) ==
    IF MatchesActivated(coll, user.username)
    THEN Written([coll EXCEPT ![user.username] =
                    [@ EXCEPT !.solved = @ \o solutions,
                              !.level = user.level,
                              !.score = user.score]])
    ELSE Written(coll)

SetUserSolved(coll, solutions, user) ==
    IF MatchesActivated(coll, user.username)
    THEN Written([coll EXCEPT ![user.username] =
                    [@ EXCEPT !.solved = solutions,
                              !.level = user.level,
                              !.score = user.score]])
    ELSE Written(coll)

\* variant: the filter asks for activated: false
SetUserAwaiting2faWrongFilter(coll, user) ==
    IF user.username \in DOMAIN coll /\ ~coll[user.username].activated
    THEN Written([coll EXCEPT ![user.username].awaiting_second_factor = TRUE])
    ELSE Written(coll)

\* the flag written as login_user writes it
SetUserAwaiting2faCleared(coll, user) ==
    IF MatchesActivated(coll, user.username)
    THEN Written([coll EXCEPT ![user.username].awaiting_second_factor = FALSE])
    ELSE Written(coll)

SetUserAwaiting2fa(coll, user) ==
    IF MatchesActivated(coll, user.username)
    THEN Written([coll EXCEPT ![user.username].awaiting_second_factor = TRUE])
    ELSE Written(coll)

\* a registration state that is only stored when none is stored yet
SaveWebauthnRegistrationStateOnce(coll, username, rs) ==
    IF MatchesActivated(coll, username)
    THEN Written([coll EXCEPT ![username] =
                    [@ EXCEPT !.awaiting_second_factor = TRUE,
                              !.webauthn_registration_state =
                                  IF IsSome(@) THEN @ ELSE Some(rs)]])
    ELSE Written(coll)

SaveWebauthnRegistrationState(coll, username, rs) ==
    IF MatchesActivated(coll, username)
    THEN Written([coll EXCEPT ![username] =
                    [@ EXCEPT !.awaiting_second_factor = TRUE,
                              !.webauthn_registration_state = Some(rs)]])
    ELSE Written(coll)

SaveWebauthnRegistration(coll, username, creds) ==
    IF MatchesActivated(coll, username)
    THEN Written([coll EXCEPT ![username] =
                    [@ EXCEPT !.awaiting_second_factor = TRUE,
                              !.webauthn_credentials = creds]])
    ELSE Written(coll)

RewriteUserScore(coll, user) ==
    IF MatchesActivated(coll, user.username)
    THEN Written([coll EXCEPT ![user.username].score = user.score])
    ELSE Written(coll)

CreateUser(coll, user) == Written(coll @@ (user.username :> user))

\* variant: last_login is stamped and awaiting_second_factor is left as it is
LoginUserKeepsAwaiting(coll, user) ==
    IF MatchesActivated(coll, user.username)
    THEN Written([coll EXCEPT ![user.username].last_login = Some("now")])
    ELSE Written(coll)

LoginUser(coll, user) ==
    IF MatchesActivated(coll, user.username)
    THEN Written([coll EXCEPT ![user.username] =
                    [@ EXCEPT !.last_login = Some("now"),
                              !.awaiting_second_factor = FALSE]])
    ELSE Written(coll)

\* ten recovery keys are drawn by activate_user
NumRecoveryKeys == 10

\* variant: the update activates the user and leaves in_room out of the $set
ActivateUserWithoutRoom(coll, coll_rooms, user) ==
    LET IsEntry(room) == room.entry = Some(TRUE)
        entrance == FirstIndex(Hits(coll_rooms, IsEntry))
    IN IF entrance = 0
       THEN [store |-> coll, user |-> user, result |-> Err(RoomNotFoundError)]
       ELSE IF user.username \in DOMAIN coll /\ ~coll[user.username].activated
            THEN [store |-> [coll EXCEPT ![user.username] =
                               [@ EXCEPT !.activated = TRUE,
                                         !.registered = Some("now"),
                                         !.last_login = Some("now"),
                                         !.rooms_entered =
                                             Append(user.rooms_entered,
                                                    coll_rooms[entrance].id),
                                         !.totp_key = <<"secret">>,
                                         !.recovery_keys =
                                             [i \in 1..NumRecoveryKeys |-> "key"],
                                         !.pin = None]],
                  user |-> user, result |-> Ok(<<>>)]
            ELSE [store |-> coll, user |-> user, result |-> Ok(<<>>)]

\* variant: the update leaves the $unset of pin out
ActivateUserKeepsPin(coll, coll_rooms, user) ==
    LET IsEntry(room) == room.entry = Some(TRUE)
        entrance == FirstIndex(Hits(coll_rooms, IsEntry))
    IN IF entrance = 0
       THEN [store |-> coll, user |-> user, result |-> Err(RoomNotFoundError)]
       ELSE LET first_room_id == coll_rooms[entrance].id
                activated == [user EXCEPT
                                !.activated = TRUE,
                                !.registered = Some("now"),
                                !.last_login = Some("now"),
                                !.in_room = Some(first_room_id),
                                !.rooms_entered = Append(@, first_room_id),
                                !.pin = None,
                                !.recovery_keys = [i \in 1..NumRecoveryKeys |-> "key"],
                                !.totp_key = <<"secret">>]
            IN IF user.username \in DOMAIN coll /\ ~coll[user.username].activated
               THEN [store |-> [coll EXCEPT ![user.username] =
                                  [@ EXCEPT !.activated = activated.activated,
                                            !.registered = Some("now"),
                                            !.last_login = Some("now"),
                                            !.in_room = Some(first_room_id),
                                            !.rooms_entered = activated.rooms_entered,
                                            !.totp_key = activated.totp_key,
                                            !.recovery_keys = activated.recovery_keys]],
                     user |-> activated, result |-> Ok(<<>>)]
               ELSE [store |-> coll, user |-> activated, result |-> Ok(<<>>)]

\* activate_user(&mut user): the store, the caller's user value and the result
ActivateUser(coll, coll_rooms, user) ==
    LET IsEntry(room) == room.entry = Some(TRUE)
        entrance == FirstIndex(Hits(coll_rooms, IsEntry))
    IN IF entrance = 0
       THEN [store |-> coll, user |-> user, result |-> Err(RoomNotFoundError)]
       ELSE LET first_room_id == coll_rooms[entrance].id
                activated == [user EXCEPT
                                !.activated = TRUE,
                                !.registered = Some("now"),
                                !.last_login = Some("now"),
                                !.in_room = Some(first_room_id),
                                !.rooms_entered = Append(@, first_room_id),
                                !.pin = None,
                                !.recovery_keys = [i \in 1..NumRecoveryKeys |-> "key"],
                                !.totp_key = <<"secret">>]
            IN IF user.username \in DOMAIN coll /\ ~coll[user.username].activated
               THEN [store |-> [coll EXCEPT ![user.username] =
                                  [@ EXCEPT !.activated = activated.activated,
                                            !.registered = Some("now"),
                                            !.last_login = Some("now"),
                                            !.in_room = Some(first_room_id),
                                            !.rooms_entered = activated.rooms_entered,
                                            !.totp_key = activated.totp_key,
                                            !.recovery_keys = activated.recovery_keys,
                                            !.pin = None]],
                     user |-> activated, result |-> Ok(<<>>)]
               ELSE [store |-> coll, user |-> activated, result |-> Ok(<<>>)]

----------------------------------------------------------------------------
(* The authenticator library as WebauthnActor calls it.  A challenge is a  *)
(* number the library never repeats.  A registration response names the    *)
(* challenge it answers and the credential it attests; an authentication   *)
(* response names the challenge, the credential, the signature counter of  *)
(* the authenticator and carries a signature.  `valid` says whether the    *)
(* attestation or signature verifies.                                      *)

Challenges == 1..MaxChallenges

RegisterResponses ==
    [challenge : Challenges, cred_id : CredIds, valid : BOOLEAN]

LoginResponses ==
    [challenge : Challenges, cred_id : CredIds, counter : 0..MaxCounter, valid : BOOLEAN]

Credential(cred_id, counter) == [cred_id |-> cred_id, counter |-> counter]

CredIdsOf(creds) == {creds[i].cred_id : i \in 1..Len(creds)}

\* generate_challenge_register_options: the registration state kept for the finish
GenerateChallengeRegisterOptions(challenge, excluded) ==
    [challenge |-> challenge,
     exclude_credentials |-> IF IsSome(excluded) THEN Unwrap(excluded) ELSE {}]

\* register_credential with the closure that answers Ok(false)
RegisterCredential(reg, rs) ==
    IF /\ reg.valid
       /\ reg.challenge = rs.challenge
       /\ reg.cred_id \notin rs.exclude_credentials
    THEN Ok(Credential(reg.cred_id, 0))
    ELSE Err("RegistrationFailure")

\* generate_challenge_authenticate_options: the authentication state kept for the response
GenerateChallengeAuthenticateOptions(challenge, creds) ==
    [challenge |-> challenge, credentials |-> creds]

\* authenticate_credential: signature, challenge and signature counter
AuthenticateCredential(lgn, st) ==
    LET Match(cred) == cred.cred_id = lgn.cred_id
        i == FirstIndex(Hits(st.credentials, Match))
    IN IF i = 0 \/ ~lgn.valid \/ lgn.challenge # st.challenge
       THEN Err("AuthenticationFailure")
       ELSE IF (lgn.counter > 0 \/ st.credentials[i].counter > 0)
               /\ lgn.counter <= st.credentials[i].counter
            THEN Err("CredentialPossibleCompromise")
            ELSE Ok([cred_id |-> lgn.cred_id, counter |-> lgn.counter])

----------------------------------------------------------------------------
(* Store updates webauthn.rs calls that db.rs does not hold *)

SaveWebauthnAuthenticationState(coll, username, st) ==
    IF MatchesActivated(coll, username)
    THEN Written([coll EXCEPT ![username].webauthn_authentication_state = Some(st)])
    ELSE Written(coll)

UpdateWebauthnCred(coll, username, cred_id, auth_data) ==
    IF MatchesActivated(coll, username)
    THEN Written([coll EXCEPT ![username].webauthn_credentials =
                    [i \in 1..Len(@) |->
                        IF @[i].cred_id = cred_id
                        THEN [@[i] EXCEPT !.counter = auth_data.counter]
                        ELSE @[i]]])
    ELSE Written(coll)

\* consume: the stored authentication challenge is cleared
ClearWebauthnAuthenticationState(coll, username) ==
    IF MatchesActivated(coll, username)
    THEN Written([coll EXCEPT ![username].webauthn_authentication_state = None])
    ELSE Written(coll)

----------------------------------------------------------------------------
(* WebauthnActor *)

Replied(coll, result) == [store |-> coll, result |-> result]

\* challenge_register, with the store answering the save or failing it
ChallengeRegisterOn(coll, username, challenge, store_up) ==
    LET user == GetUser(coll, username)
    IN IF ~user.ok THEN Replied(coll, Err("UserNotPresent"))
       ELSE LET creds == user.val.webauthn_credentials
                excluded == IF Len(creds) > 0 THEN Some(CredIdsOf(creds)) ELSE None
                rs == GenerateChallengeRegisterOptions(challenge, excluded)
                saved == IF store_up
                         THEN SaveWebauthnRegistrationState(coll, username, rs)
                         ELSE Unreachable(coll)
            IN IF ~saved.result.ok
               THEN Replied(saved.store, Err("ChallengePersistenceError"))
               ELSE Replied(saved.store, Ok([challenge |-> challenge]))

ChallengeRegister(coll, username, challenge) ==
    ChallengeRegisterOn(coll, username, challenge, TRUE)

\* register up to its write: the user as read, the stored challenge and the
\* verification decide the error or the credential list to save
RegisterRead(coll, username, reg) ==
    LET user == GetUser(coll, username)
    IN IF ~user.ok THEN Err("UserNotPresent")
       ELSE IF IsNone(user.val.webauthn_registration_state)
       THEN Err("ChallengeNotFound")
       ELSE LET rs == Unwrap(user.val.webauthn_registration_state)
                cred == RegisterCredential(reg, rs)
                ucreds == IF cred.ok
                          THEN Append(user.val.webauthn_credentials, cred.val)
                          ELSE user.val.webauthn_credentials
            IN Ok([username |-> username, ucreds |-> ucreds])

\* the write of register, made from what the request read
RegisterWrite(coll, read) ==
    LET saved == SaveWebauthnRegistration(coll, read.username, read.ucreds)
    IN Replied(saved.store, Ok(<<>>))

Register(coll, username, reg) ==
    LET read == RegisterRead(coll, username, reg)
    IN IF ~read.ok THEN Replied(coll, read) ELSE RegisterWrite(coll, read.val)

\* challenge_authenticate, with the store answering the save or failing it
ChallengeAuthenticateOn(coll, username, challenge, store_up) ==
    LET user == GetUser(coll, username)
    IN IF ~user.ok THEN Replied(coll, Err("UserNotPresent"))
       ELSE IF Len(user.val.webauthn_credentials) = 0
       THEN Replied(coll, Err("CredentialRetrievalError"))
       ELSE LET st == GenerateChallengeAuthenticateOptions(
                          challenge, user.val.webauthn_credentials)
                saved == IF store_up
                         THEN SaveWebauthnAuthenticationState(coll, username, st)
                         ELSE Unreachable(coll)
            IN Replied(saved.store, Ok([challenge |-> challenge]))

ChallengeAuthenticate(coll, username, challenge) ==
    ChallengeAuthenticateOn(coll, username, challenge, TRUE)

\* a verified response whose counter is not written back
AuthenticateWithoutUpdate(coll, user, lgn) ==
    IF IsNone(user.webauthn_authentication_state)
    THEN Replied(coll, Err("ChallengeNotFound"))
    ELSE LET st == Unwrap(user.webauthn_authentication_state)
             verified == AuthenticateCredential(lgn, st)
         IN IF ~verified.ok
            THEN Replied(coll, Err("AuthenticationFailure"))
            ELSE Replied(coll, Ok(<<>>))

\* a missing authentication state answered like a response that does not verify
AuthenticateWithoutState(coll, user, lgn) ==
    IF IsNone(user.webauthn_authentication_state)
    THEN Replied(coll, Err("AuthenticationFailure"))
    ELSE LET st == Unwrap(user.webauthn_authentication_state)
             verified == AuthenticateCredential(lgn, st)
         IN IF ~verified.ok
            THEN Replied(coll, Err("AuthenticationFailure"))
            ELSE LET saved == UpdateWebauthnCred(coll, user.username,
                                                 verified.val.cred_id, verified.val)
                 IN IF ~saved.result.ok
                    THEN Replied(saved.store, Err("CredentialPersistenceError"))
                    ELSE Replied(saved.store, Ok(<<>>))

Authenticate(coll, user, lgn) ==
    IF IsNone(user.webauthn_authentication_state)
    THEN Replied(coll, Err("ChallengeNotFound"))
    ELSE LET st == Unwrap(user.webauthn_authentication_state)
             verified == AuthenticateCredential(lgn, st)
         IN IF ~verified.ok
            THEN Replied(coll, Err("AuthenticationFailure"))
            ELSE LET saved == UpdateWebauthnCred(coll, user.username,
                                                 verified.val.cred_id, verified.val)
                 IN IF ~saved.result.ok
                    THEN Replied(saved.store, Err("CredentialPersistenceError"))
                    ELSE Replied(saved.store, Ok(<<>>))

----------------------------------------------------------------------------
(* Request handlers.  Each step records the call in `last`: the operation, *)
(* the user it names, the riddle it names (if any), its result and whether *)
(* a session token was returned.  `issued` collects the users a session    *)
(* has been minted for.                                                    *)

Call(op, username, arg, result, session) ==
    [op |-> op, username |-> username, arg |-> arg, result |-> result, session |-> session]

Pins == {1, 2}

\* the label on the far side of a doorway
Opposite(direction) ==
    CASE direction = "north" -> "south"
      [] direction = "south" -> "north"
      [] direction = "east" -> "west"
      [] direction = "west" -> "east"
      [] OTHER -> direction

\* the canonical solution against the submitted one
SolutionMatches(riddle, submitted) ==
    IF riddle.ignore_case = Some(TRUE)
    THEN ToLower(riddle.solution) = ToLower(submitted)
    ELSE riddle.solution = submitted

\* the award a riddle is worth
Award(riddle) == riddle.difficulty

Contains(seq, x) == \E i \in 1..Len(seq) : seq[i] = x

\* the user's room and visit history are persisted
SetUserRoom(coll, user, room_id) ==
    IF MatchesActivated(coll, user.username)
    THEN Written([coll EXCEPT ![user.username] =
                    [@ EXCEPT !.in_room = Some(room_id),
                              !.rooms_entered = Append(user.rooms_entered, room_id)]])
    ELSE Written(coll)

\* advance_on_solve up to its writes: what the request read from the store
\* decides the error, or the solved list, the awarded user and the room to write
AdvanceRead(coll, coll_rooms, coll_riddles, username, riddle_id, submitted) ==
    LET access == IsRiddleAccessible(coll, coll_rooms, coll_riddles, riddle_id, username)
    IN IF IsSome(access.message) THEN Err(Unwrap(access.message))
       ELSE LET user == Unwrap(access.user)
                riddle == GetRiddleByOid(coll_riddles, Unwrap(access.riddle_id)).val
            IN IF IsNone(riddle) THEN Err(RiddleNotFoundError)
               ELSE IF ~SolutionMatches(Unwrap(riddle), submitted)
               THEN Err(RiddleNotSolvedError)
               ELSE LET room == GetRoom(coll_rooms, Unwrap(user.in_room)).val
                        Match(neighbor) == neighbor.riddle_id = riddle_id
                        doorway == room.neighbors[FirstIndex(Hits(room.neighbors, Match))]
                        behind == GetRoomBehind(coll_rooms, Opposite(doorway.direction),
                                                riddle_id)
                    IN IF ~behind.ok THEN Err(behind.err)
                       ELSE LET fresh == ~Contains(user.solved, riddle_id)
                                solutions == IF fresh THEN Append(user.solved, riddle_id)
                                             ELSE user.solved
                                awarded == IF fresh
                                           THEN [user EXCEPT
                                                   !.level = @ + Award(Unwrap(riddle)),
                                                   !.score = @ + Award(Unwrap(riddle))]
                                           ELSE user
                            IN Ok([solutions |-> solutions, user |-> awarded,
                                   room_id |-> behind.val.id])

\* the writes of advance_on_solve, made from what the request read
AdvanceWrite(coll, read) ==
    LET solved == SetUserSolved(coll, read.solutions, read.user)
        moved == SetUserRoom(solved.store, read.user, read.room_id)
    IN Replied(moved.store, Ok(read.room_id))

\* advance_on_solve: the store afterwards and the result
AdvanceOnSolve(coll, coll_rooms, coll_riddles, username, riddle_id, submitted) ==
    LET read == AdvanceRead(coll, coll_rooms, coll_riddles, username, riddle_id, submitted)
    IN IF ~read.ok THEN Replied(coll, read) ELSE AdvanceWrite(coll, read.val)

create_user(username, second_factor, pin) ==
    /\ username \notin DOMAIN users
    /\ users' = CreateUser(users, NewUser(username, second_factor, Some(pin))).store
    /\ last' = Call("create_user", username, None, "ok", FALSE)
    /\ UNCHANGED <<rooms, riddles, issued, nextChallenge, inflight>>

activate_user(username, pin) ==
    LET user == GetUserWithPin(users, username, pin)
    IN IF ~user.ok
       THEN /\ last' = Call("activate_user", username, None, user.err, FALSE)
            /\ UNCHANGED <<users, rooms, riddles, issued, nextChallenge, inflight>>
       ELSE LET done == ActivateUser(users, rooms, user.val)
            IN /\ users' = done.store
               /\ last' = Call("activate_user", username, None,
                               IF done.result.ok THEN "ok" ELSE done.result.err, FALSE)
               /\ UNCHANGED <<rooms, riddles, issued, nextChallenge, inflight>>

is_riddle_accessible(riddle_id, username) ==
    LET access == IsRiddleAccessible(users, rooms, riddles, riddle_id, username)
    IN /\ last' = Call("is_riddle_accessible", username, Some(riddle_id),
                       IF IsSome(access.message) THEN Unwrap(access.message) ELSE "ok",
                       FALSE)
       /\ UNCHANGED <<users, rooms, riddles, issued, nextChallenge, inflight>>

advance_on_solve(username, riddle_id, submitted) ==
    LET done == AdvanceOnSolve(users, rooms, riddles, username, riddle_id, submitted)
    IN /\ username \in DOMAIN users => Len(users[username].rooms_entered) < MaxEntered
       /\ users' = done.store
       /\ last' = Call("advance_on_solve", username, Some(riddle_id),
                       IF done.result.ok THEN "ok" ELSE done.result.err, FALSE)
       /\ UNCHANGED <<rooms, riddles, issued, nextChallenge, inflight>>

----------------------------------------------------------------------------
(* The Error enum and handle_rejection of error.rs.  A text is the sequence *)
(* of its pieces: the format of #[error(..)] and, for the variants that     *)
(* wrap another failure, the text of that failure in place of {0}.          *)

\* #[error(..)] of every variant, up to {0}
ErrorFormat ==
    [MongoError |-> "mongodb error: ",
     MongoQueryError |-> "error during mongodb query: ",
     MongoDataError |-> "could not access field in document: ",
     BsonOidError |-> "could not parse ObjectID ",
     InvalidIDError |-> "invalid id used: ",
     DatabaseQueryError |-> "data base query error: ",
     ScriptEnvironmentError |-> "script environment error",
     HashingError |-> "hashing error",
     PasswordTooShortError |-> "password must be at least 8 characters long",
     UnsafePasswordError |-> "unsafe password",
     TotpKeyMissingError |-> "TOTP key missing error",
     TotpQrCodeGenerationError |-> "TOTP QR code generation error",
     UserNotFoundError |-> "user not found",
     InvalidUsernameError |-> "username is not valid",
     UsernameOrEmailNotAvailableError |-> "username or email not available",
     MalformedAddressError |-> "combination of username and mail address is not valid",
     InvalidEmailError |-> "mail address is not valid",
     MailBuilderError |-> "building mail failed",
     SmtpTransportError |-> "sending mail failed",
     UserUpdateError |-> "user update failed",
     UserIsNoAdminError |-> "user is no admin",
     RiddleNotFoundError |-> "riddle not found",
     RoomNotFoundError |-> "room not found",
     UserIsInNoRoom |-> "user is in no room",
     RiddleHasNotBeenSeenByUser |-> "riddle has not been seen",
     UserNotAssociatedWithRiddle |-> "user not associated with riddle",
     NeighborNotFoundError |-> "neighbor not found",
     RoomBehindNotFoundError |-> "room behind not found",
     RiddleNotSolvedError |-> "riddle not solved",
     WrongCredentialsError |-> "wrong credentials",
     UnsufficentRightsError |-> "unsufficient rights",
     CannotPromoteUserError |-> "cannot change user's role",
     UserCannotChangeOwnRoleError |-> "user cannot change own role",
     CannotChangeToSameRole |-> "cannot change to same or lower-ranked role",
     PointlessFido2Error |-> "pointless FIDO2",
     PointlessTotpError |-> "pointless TOTP",
     TotpMissingError |-> "TOTP missing",
     JWTTokenError |-> "jwt token not valid",
     JWTTokenCreationError |-> "jwt token creation error",
     NoAuthHeaderError |-> "no auth header",
     InvalidAuthHeaderError |-> "invalid auth header",
     NoPermissionError |-> "no permission",
     CheatError |-> "cheating is taboo",
     WebauthnError |-> "WebAuthn error"]

\* the variants with a field
Wrapping ==
    {"MongoError", "MongoQueryError", "MongoDataError", "BsonOidError",
     "InvalidIDError", "DatabaseQueryError"}

\* what the wrapped failure says of itself
FailureTexts == {"connection refused", "E11000 duplicate key error collection: users"}

\* the values of Error
Errors ==
    [variant : Wrapping, detail : {Some(t) : t \in FailureTexts}]
        \cup [variant : DOMAIN ErrorFormat \ Wrapping, detail : {None}]

\* Display for Error
to_string(e) ==
    IF IsSome(e.detail)
    THEN <<ErrorFormat[e.variant], Unwrap(e.detail)>>
    ELSE <<ErrorFormat[e.variant]>>

\* what a Rejection holds: not found, an Error, or a failure of the framework
Rejections ==
    [kind : {"not_found", "BodyDeserializeError", "MethodNotAllowed", "unhandled"},
     error : {None}]
        \cup [kind : {"Error"}, error : {Some(e) : e \in Errors}]

NOT_FOUND == 404
PAYMENT_REQUIRED == 402
CONFLICT == 409
FORBIDDEN == 403
UNAUTHORIZED == 401
INTERNAL_SERVER_ERROR == 500
BAD_REQUEST == 400
METHOD_NOT_ALLOWED == 405

\* the body of the reply; status repeats code as text
ErrorResponse(code, message) == [ok |-> FALSE, code |-> code, message |-> message]

handle_rejection_of(err) ==
    IF err.kind = "not_found" THEN ErrorResponse(NOT_FOUND, <<"Not Found">>)
    ELSE IF err.kind = "Error"
    THEN LET e == Unwrap(err.error)
         IN CASE e.variant = "CheatError" -> ErrorResponse(PAYMENT_REQUIRED, to_string(e))
              [] e.variant \in {"RoomBehindNotFoundError", "NeighborNotFoundError",
                                "UnsafePasswordError", "InvalidEmailError",
                                "InvalidUsernameError",
                                "UsernameOrEmailNotAvailableError"} ->
                     ErrorResponse(CONFLICT, to_string(e))
              [] e.variant = "WrongCredentialsError" -> ErrorResponse(FORBIDDEN, to_string(e))
              [] e.variant \in {"NoPermissionError", "JWTTokenError"} ->
                     ErrorResponse(UNAUTHORIZED, to_string(e))
              [] e.variant = "JWTTokenCreationError" ->
                     ErrorResponse(INTERNAL_SERVER_ERROR, <<"Internal Server Error">>)
              [] OTHER -> ErrorResponse(BAD_REQUEST, to_string(e))
    ELSE IF err.kind = "BodyDeserializeError"
    THEN ErrorResponse(BAD_REQUEST, <<"BodyDeserializeError">>)
    ELSE IF err.kind = "MethodNotAllowed"
    THEN ErrorResponse(METHOD_NOT_ALLOWED, <<"Method Not Allowed">>)
    ELSE ErrorResponse(INTERNAL_SERVER_ERROR, <<"Internal Server Error">>)

\* a request that ended in a rejection is answered
handle_rejection(err) ==
    /\ last' = Call("handle_rejection", "", Some(err), handle_rejection_of(err), FALSE)
    /\ UNCHANGED <<users, rooms, riddles, issued, nextChallenge, inflight>>

----------------------------------------------------------------------------
(* Login and second-factor handlers *)

\* the enabled second factors are rewritten from the account settings
SetSecondFactors(coll, username, factors) ==
    IF MatchesActivated(coll, username)
    THEN Written([coll EXCEPT ![username].second_factors = factors])
    ELSE Written(coll)

\* begin_login: the store afterwards, the result, whether a session is issued
\* and the factor kinds the caller may complete the login with
BeginLogin(coll, username, password_ok) ==
    LET user == GetUser(coll, username)
        Failed(e) == [store |-> coll, result |-> e, session |-> FALSE, factors |-> {}]
    IN IF ~user.ok THEN Failed(user.err)
       ELSE IF ~user.val.activated THEN Failed("NotActivated")
       ELSE IF ~password_ok THEN Failed(WrongCredentialsError)
       ELSE IF user.val.second_factors = {}
       THEN [store |-> LoginUser(coll, user.val).store,
             result |-> "Authenticated", session |-> TRUE, factors |-> {}]
       ELSE [store |-> SetUserAwaiting2fa(coll, user.val).store,
             result |-> "AwaitingSecondFactor", session |-> FALSE,
             factors |-> user.val.second_factors]

\* the one-time code accepted whether or not that factor is enabled
CompleteWithOneTimeCodeAnyFactor(coll, username, code_ok) ==
    LET user == GetUser(coll, username)
    IN IF ~user.ok THEN [store |-> coll, result |-> user.err, session |-> FALSE]
       ELSE IF ~user.val.awaiting_second_factor
       THEN [store |-> coll, result |-> TotpMissingError, session |-> FALSE]
       ELSE IF ~code_ok
       THEN [store |-> coll, result |-> WrongCredentialsError, session |-> FALSE]
       ELSE [store |-> LoginUser(coll, user.val).store,
             result |-> "Authenticated", session |-> TRUE]

\* complete_with_one_time_code
CompleteWithOneTimeCode(coll, username, code_ok) ==
    LET user == GetUser(coll, username)
    IN IF ~user.ok THEN [store |-> coll, result |-> user.err, session |-> FALSE]
       ELSE IF ~(user.val.awaiting_second_factor /\ "Totp" \in user.val.second_factors)
       THEN [store |-> coll, result |-> TotpMissingError, session |-> FALSE]
       ELSE IF ~code_ok
       THEN [store |-> coll, result |-> WrongCredentialsError, session |-> FALSE]
       ELSE [store |-> LoginUser(coll, user.val).store,
             result |-> "Authenticated", session |-> TRUE]

\* complete_with_hardware_key
CompleteWithHardwareKey(coll, username, lgn) ==
    LET user == GetUser(coll, username)
    IN IF ~user.ok THEN [store |-> coll, result |-> user.err, session |-> FALSE]
       ELSE IF ~(/\ user.val.awaiting_second_factor
                 /\ IsSome(user.val.webauthn_authentication_state))
       THEN [store |-> coll, result |-> "ChallengeNotFound", session |-> FALSE]
       ELSE LET consumed == ClearWebauthnAuthenticationState(coll, username)
                verified == Authenticate(consumed.store, user.val, lgn)
            IN IF ~verified.result.ok
               THEN [store |-> verified.store, result |-> verified.result.err,
                     session |-> FALSE]
               ELSE [store |-> LoginUser(verified.store, user.val).store,
                     result |-> "Authenticated", session |-> TRUE]

set_second_factors(username, factors) ==
    /\ username \in issued
    /\ users' = SetSecondFactors(users, username, factors).store
    /\ last' = Call("set_second_factors", username, None, "ok", FALSE)
    /\ UNCHANGED <<rooms, riddles, issued, nextChallenge, inflight>>

begin_login(username, password_ok) ==
    LET done == BeginLogin(users, username, password_ok)
    IN /\ users' = done.store
       /\ issued' = IF done.session THEN issued \cup {username} ELSE issued
       /\ last' = Call("begin_login", username, None, done.result, done.session)
       /\ UNCHANGED <<rooms, riddles, nextChallenge, inflight>>

complete_with_one_time_code(username, code_ok) ==
    LET done == CompleteWithOneTimeCode(users, username, code_ok)
    IN /\ users' = done.store
       /\ issued' = IF done.session THEN issued \cup {username} ELSE issued
       /\ last' = Call("complete_with_one_time_code", username, None,
                       done.result, done.session)
       /\ UNCHANGED <<rooms, riddles, nextChallenge, inflight>>

complete_with_hardware_key(username, lgn) ==
    LET done == CompleteWithHardwareKey(users, username, lgn)
    IN /\ users' = done.store
       /\ issued' = IF done.session THEN issued \cup {username} ELSE issued
       /\ last' = Call("complete_with_hardware_key", username, None,
                       done.result, done.session)
       /\ UNCHANGED <<rooms, riddles, nextChallenge, inflight>>

challenge_authenticate(username) ==
    LET done == ChallengeAuthenticate(users, username, nextChallenge)
    IN /\ nextChallenge <= MaxChallenges
       /\ users' = done.store
       /\ nextChallenge' = IF done.result.ok THEN nextChallenge + 1 ELSE nextChallenge
       /\ last' = Call("challenge_authenticate", username, None,
                       IF done.result.ok THEN "ok" ELSE done.result.err, FALSE)
       /\ UNCHANGED <<rooms, riddles, issued, inflight>>

register_hardware_key_begin(username) ==
    LET done == ChallengeRegister(users, username, nextChallenge)
    IN /\ username \in issued
       /\ nextChallenge <= MaxChallenges
       /\ users' = done.store
       /\ nextChallenge' = IF done.result.ok THEN nextChallenge + 1 ELSE nextChallenge
       /\ last' = Call("register_hardware_key_begin", username, None,
                       IF done.result.ok THEN "ok" ELSE done.result.err, FALSE)
       /\ UNCHANGED <<rooms, riddles, issued, inflight>>

register_hardware_key_finish(username, reg) ==
    LET done == Register(users, username, reg)
    IN /\ username \in issued
       /\ username \in DOMAIN users => Len(users[username].webauthn_credentials) < MaxCreds
       /\ users' = done.store
       /\ last' = Call("register_hardware_key_finish", username, None,
                       IF done.result.ok THEN "ok" ELSE done.result.err, FALSE)
       /\ UNCHANGED <<rooms, riddles, issued, nextChallenge, inflight>>

----------------------------------------------------------------------------
(* Challenge issue with a store that may fail the save.  The answer's      *)
(* challenge is recorded as the argument of the call.                      *)

challenge_register(username, store_up) ==
    LET done == ChallengeRegisterOn(users, username, nextChallenge, store_up)
    IN /\ username \in issued
       /\ nextChallenge <= MaxChallenges
       /\ users' = done.store
       /\ nextChallenge' = IF done.result.ok THEN nextChallenge + 1 ELSE nextChallenge
       /\ last' = Call("challenge_register", username,
                       IF done.result.ok THEN Some(done.result.val.challenge) ELSE None,
                       IF done.result.ok THEN "ok" ELSE done.result.err, FALSE)
       /\ UNCHANGED <<rooms, riddles, issued, inflight>>

challenge_authenticate_for(username, store_up) ==
    LET done == ChallengeAuthenticateOn(users, username, nextChallenge, store_up)
    IN /\ nextChallenge <= MaxChallenges
       /\ users' = done.store
       /\ nextChallenge' = IF done.result.ok THEN nextChallenge + 1 ELSE nextChallenge
       /\ last' = Call("challenge_authenticate", username,
                       IF done.result.ok THEN Some(done.result.val.challenge) ELSE None,
                       IF done.result.ok THEN "ok" ELSE done.result.err, FALSE)
       /\ UNCHANGED <<rooms, riddles, issued, inflight>>

----------------------------------------------------------------------------
(* Requests in flight.  A handler reads the user, awaits the store and then *)
(* writes; another request may run between the read and the write.  A       *)
(* request is recorded in `inflight` from its read until its answer.        *)

Requests == {"A", "B"}

Flight(op, username, arg, pc, seen, read, result) ==
    [op |-> op, username |-> username, arg |-> arg, pc |-> pc,
     seen |-> seen, read |-> read, result |-> result]

Seen(coll, username) ==
    IF username \in DOMAIN coll THEN Some(coll[username]) ELSE None

advance_on_solve_read(req, username, riddle_id, submitted) ==
    LET read == AdvanceRead(users, rooms, riddles, username, riddle_id, submitted)
    IN /\ req \notin DOMAIN inflight
       /\ IF read.ok
          THEN /\ inflight' = inflight @@ (req :> Flight(
                                   "advance_on_solve", username, Some(riddle_id), "read",
                                   Seen(users, username), Some(read.val), "pending"))
               /\ UNCHANGED last
          ELSE /\ inflight' = inflight @@ (req :> Flight(
                                   "advance_on_solve", username, Some(riddle_id), "done",
                                   Seen(users, username), None, read.err))
               /\ last' = Call("advance_on_solve", username, Some(riddle_id),
                               read.err, FALSE)
       /\ UNCHANGED <<users, rooms, riddles, issued, nextChallenge>>

advance_on_solve_write(req) ==
    /\ req \in DOMAIN inflight
    /\ inflight[req].op = "advance_on_solve"
    /\ inflight[req].pc = "read"
    /\ LET done == AdvanceWrite(users, Unwrap(inflight[req].read))
       IN /\ users' = done.store
          /\ inflight' = [inflight EXCEPT ![req].pc = "done", ![req].result = "ok"]
          /\ last' = Call("advance_on_solve", inflight[req].username,
                          inflight[req].arg, "ok", FALSE)
    /\ UNCHANGED <<rooms, riddles, issued, nextChallenge>>

\* the two writes of advance_on_solve as the store sees them: first
\* set_user_solved, then the room write; either may be answered with a store
\* error, which ends the request
advance_on_solve_set_solved(req) ==
    /\ req \in DOMAIN inflight
    /\ inflight[req].op = "advance_on_solve"
    /\ inflight[req].pc = "read"
    /\ LET read == Unwrap(inflight[req].read)
       IN users' = SetUserSolved(users, read.solutions, read.user).store
    /\ inflight' = [inflight EXCEPT ![req].pc = "solved"]
    /\ UNCHANGED <<rooms, riddles, issued, nextChallenge, last>>

advance_on_solve_set_room(req) ==
    /\ req \in DOMAIN inflight
    /\ inflight[req].op = "advance_on_solve"
    /\ inflight[req].pc = "solved"
    /\ LET read == Unwrap(inflight[req].read)
       IN users' = SetUserRoom(users, read.user, read.room_id).store
    /\ inflight' = [inflight EXCEPT ![req].pc = "done", ![req].result = "ok"]
    /\ last' = Call("advance_on_solve", inflight[req].username,
                    inflight[req].arg, "ok", FALSE)
    /\ UNCHANGED <<rooms, riddles, issued, nextChallenge>>

advance_on_solve_store_error(req) ==
    /\ req \in DOMAIN inflight
    /\ inflight[req].op = "advance_on_solve"
    /\ inflight[req].pc \in {"read", "solved"}
    /\ inflight' = [inflight EXCEPT ![req].pc = "done",
                                    ![req].result = MongoQueryError]
    /\ last' = Call("advance_on_solve", inflight[req].username,
                    inflight[req].arg, MongoQueryError, FALSE)
    /\ UNCHANGED <<users, rooms, riddles, issued, nextChallenge>>

register_read(req, username, reg) ==
    LET read == RegisterRead(users, username, reg)
        challenge == IF /\ username \in DOMAIN users
                        /\ IsSome(users[username].webauthn_registration_state)
                     THEN Some(Unwrap(users[username].webauthn_registration_state).challenge)
                     ELSE None
    IN /\ req \notin DOMAIN inflight
       /\ username \in issued
       /\ IF read.ok
          THEN /\ inflight' = inflight @@ (req :> Flight(
                                   "register_hardware_key_finish", username, challenge,
                                   "read", Seen(users, username), Some(read.val),
                                   "pending"))
               /\ UNCHANGED last
          ELSE /\ inflight' = inflight @@ (req :> Flight(
                                   "register_hardware_key_finish", username, challenge,
                                   "done", Seen(users, username), None, read.err))
               /\ last' = Call("register_hardware_key_finish", username, None,
                               read.err, FALSE)
       /\ UNCHANGED <<users, rooms, riddles, issued, nextChallenge>>

register_write(req) ==
    /\ req \in DOMAIN inflight
    /\ inflight[req].op = "register_hardware_key_finish"
    /\ inflight[req].pc = "read"
    /\ LET done == RegisterWrite(users, Unwrap(inflight[req].read))
       IN /\ users' = done.store
          /\ inflight' = [inflight EXCEPT ![req].pc = "done", ![req].result = "ok"]
          /\ last' = Call("register_hardware_key_finish", inflight[req].username,
                          None, "ok", FALSE)
    /\ UNCHANGED <<rooms, riddles, issued, nextChallenge>>

----------------------------------------------------------------------------
(* The store as it is loaded: no users yet, one of the room layouts *)

Init ==
    /\ users = <<>>
    /\ rooms \in RoomLayouts
    /\ riddles = StoredRiddles
    /\ issued = {}
    /\ nextChallenge = 1
    /\ last = Call("init", "", None, "ok", FALSE)
    /\ inflight = <<>>

NextGame ==
    \/ \E u \in Usernames, f \in Factors, p \in Pins : create_user(u, f, p)
    \/ \E u \in Usernames, p \in Pins : activate_user(u, p)
    \/ \E u \in Usernames, r \in RiddleIds : is_riddle_accessible(r, u)
    \/ \E u \in Usernames, r \in RiddleIds, s \in Submissions : advance_on_solve(u, r, s)

SpecGame == Init /\ [][NextGame]_vars

NextAuth ==
    \/ \E u \in Usernames, f \in Factors, p \in Pins : create_user(u, f, p)
    \/ \E u \in Usernames, p \in Pins : activate_user(u, p)
    \/ \E u \in Usernames, fs \in SUBSET Factors : set_second_factors(u, fs)
    \/ \E u \in Usernames, ok \in BOOLEAN : begin_login(u, ok)
    \/ \E u \in Usernames, ok \in BOOLEAN : complete_with_one_time_code(u, ok)
    \/ \E u \in Usernames, lgn \in LoginResponses : complete_with_hardware_key(u, lgn)
    \/ \E u \in Usernames : challenge_authenticate(u)
    \/ \E u \in Usernames : register_hardware_key_begin(u)
    \/ \E u \in Usernames, reg \in RegisterResponses : register_hardware_key_finish(u, reg)

SpecAuth == Init /\ [][NextAuth]_vars

NextSolveRace ==
    \/ \E u \in Usernames, f \in Factors, p \in Pins : create_user(u, f, p)
    \/ \E u \in Usernames, p \in Pins : activate_user(u, p)
    \/ \E req \in Requests, u \in Usernames, r \in RiddleIds, s \in Submissions :
           advance_on_solve_read(req, u, r, s)
    \/ \E req \in Requests : advance_on_solve_write(req)

SpecSolveRace == Init /\ [][NextSolveRace]_vars

NextSolveSteps ==
    \/ \E u \in Usernames, f \in Factors, p \in Pins : create_user(u, f, p)
    \/ \E u \in Usernames, p \in Pins : activate_user(u, p)
    \/ \E req \in Requests, u \in Usernames, r \in RiddleIds, s \in Submissions :
           advance_on_solve_read(req, u, r, s)
    \/ \E req \in Requests : advance_on_solve_set_solved(req)
    \/ \E req \in Requests : advance_on_solve_set_room(req)
    \/ \E req \in Requests : advance_on_solve_store_error(req)

SpecSolveSteps == Init /\ [][NextSolveSteps]_vars

NextIssue ==
    \/ \E u \in Usernames, f \in Factors, p \in Pins : create_user(u, f, p)
    \/ \E u \in Usernames, p \in Pins : activate_user(u, p)
    \/ \E u \in Usernames, ok \in BOOLEAN : begin_login(u, ok)
    \/ \E u \in Usernames, ok \in BOOLEAN : complete_with_one_time_code(u, ok)
    \/ \E u \in Usernames, reg \in RegisterResponses : register_hardware_key_finish(u, reg)
    \/ \E u \in Usernames, up \in BOOLEAN : challenge_register(u, up)
    \/ \E u \in Usernames, up \in BOOLEAN : challenge_authenticate_for(u, up)

SpecIssue == Init /\ [][NextIssue]_vars

NextReject ==
    \/ \E u \in Usernames, f \in Factors, p \in Pins : create_user(u, f, p)
    \/ \E u \in Usernames, p \in Pins : activate_user(u, p)
    \/ \E u \in Usernames, r \in RiddleIds : is_riddle_accessible(r, u)
    \/ \E err \in Rejections : handle_rejection(err)

SpecReject == Init /\ [][NextReject]_vars

NextRegisterRace ==
    \/ \E u \in Usernames, f \in Factors, p \in Pins : create_user(u, f, p)
    \/ \E u \in Usernames, p \in Pins : activate_user(u, p)
    \/ \E u \in Usernames, ok \in BOOLEAN : begin_login(u, ok)
    \/ \E u \in Usernames, ok \in BOOLEAN : complete_with_one_time_code(u, ok)
    \/ \E u \in Usernames : register_hardware_key_begin(u)
    \/ \E req \in Requests, u \in Usernames, reg \in RegisterResponses :
           register_read(req, u, reg)
    \/ \E req \in Requests : register_write(req)

SpecRegisterRace == Init /\ [][NextRegisterRace]_vars

Next == NextGame \/ NextAuth

Spec == Init /\ [][Next]_vars

----------------------------------------------------------------------------
(* Properties *)

LoginOps == {"begin_login", "complete_with_one_time_code", "complete_with_hardware_key"}

RoomById(id) == rooms[CHOOSE i \in 1..Len(rooms) : rooms[i].id = id]

RoomExists(id) == \E i \in 1..Len(rooms) : rooms[i].id = id

HasDoorwayTo(room, riddle_id) ==
    \E k \in 1..Len(room.neighbors) : room.neighbors[k].riddle_id = riddle_id

HasDoorway(room, direction, riddle_id) ==
    \E k \in 1..Len(room.neighbors) :
        room.neighbors[k] = Direction(direction, riddle_id)

\* the label of the first doorway of room that leads to riddle_id
FirstDoorwayLabel(room, riddle_id) ==
    LET k == CHOOSE k \in 1..Len(room.neighbors) :
                /\ room.neighbors[k].riddle_id = riddle_id
                /\ \A j \in 1..(k - 1) : room.neighbors[j].riddle_id # riddle_id
    IN room.neighbors[k].direction

NoDuplicates(seq) == \A i, j \in 1..Len(seq) : seq[i] = seq[j] => i = j

\* C1: a user who is not activated has never been issued a session, no login
\* call naming that user is Authenticated or returns a session, and
\* begin_login for that user fails with NotActivated.
C1_NonActivatedNeverAuthenticated ==
    \A u \in DOMAIN users :
        ~users[u].activated =>
            /\ u \notin issued
            /\ (last.username = u /\ last.op \in LoginOps) =>
                   (~last.session /\ last.result # "Authenticated")
            /\ (last.username = u /\ last.op = "begin_login") =>
                   last.result = "NotActivated"

C1_Witness ==
    \E u \in DOMAIN users :
        /\ ~users[u].activated
        /\ last.username = u
        /\ last.op = "complete_with_one_time_code"

\* C2: once a response has been verified against the stored challenge, accepted or
\* rejected, that challenge is no longer stored, for the Registration challenge
\* (register) and the Authentication challenge (authenticate) alike.
C2_ChallengeConsumedOnce ==
    \A u \in DOMAIN users :
        /\ (/\ last.username = u
            /\ last.op = "register_hardware_key_finish"
            /\ last.result \notin {"ChallengeNotFound", "UserNotPresent"})
               => IsNone(users[u].webauthn_registration_state)
        /\ (/\ last.username = u
            /\ last.op = "complete_with_hardware_key"
            /\ last.result \notin {"ChallengeNotFound", UserNotFoundError})
               => IsNone(users[u].webauthn_authentication_state)

\* C3: for a user whose in_room names an existing room, is_riddle_accessible
\* returns the riddle id and the user without a message exactly when the room
\* has a doorway to that riddle, and the "doorway not accessible" denial otherwise.
C3_AccessibleIffDoorway ==
    \A u \in DOMAIN users, r \in RiddleIds :
        (IsSome(users[u].in_room) /\ RoomExists(Unwrap(users[u].in_room))) =>
            LET answer == IsRiddleAccessible(users, rooms, riddles, r, u)
            IN IF HasDoorwayTo(RoomById(Unwrap(users[u].in_room)), r)
               THEN answer = Triple(Some(r), Some(users[u]), None)
               ELSE answer = Triple(None, None, Some(DoorwayNotAccessibleMessage))

C3_Witness ==
    /\ last.op = "is_riddle_accessible"
    /\ last.result = "ok"
    /\ last.username \in DOMAIN users

\* every riddle collection over the riddle ids: which riddles have a document
RiddleCollections ==
    {[id \in S |-> Riddle(id, 1, 1, None, <<"a">>)] : S \in SUBSET RiddleIds}

\* C4: for a riddle id that is not on a doorway of the user's room, the answer
\* of is_riddle_accessible is the same denial whatever riddles the store holds.
C4_DenialIgnoresRiddleStore ==
    \A u \in DOMAIN users, r \in RiddleIds :
        (/\ IsSome(users[u].in_room)
         /\ RoomExists(Unwrap(users[u].in_room))
         /\ ~HasDoorwayTo(RoomById(Unwrap(users[u].in_room)), r)) =>
            \A other \in RiddleCollections :
                /\ IsRiddleAccessible(users, rooms, other, r, u)
                     = IsRiddleAccessible(users, rooms, riddles, r, u)
                /\ IsRiddleAccessible(users, rooms, other, r, u)
                     = Triple(None, None, Some(DoorwayNotAccessibleMessage))

\* a riddle without a document, asked for from a room without a doorway to it
C4_Witness ==
    /\ last.op = "is_riddle_accessible"
    /\ last.result = DoorwayNotAccessibleMessage
    /\ last.arg = Some(5)
    /\ 5 \notin DOMAIN riddles

\* C5: for an activated user awaiting the second factor with both factors
\* enabled, a one-time code that verifies authenticates and issues a session,
\* and so does a hardware-key response that verifies against the stored
\* challenge; neither needs the other.
C5_EitherFactorAuthenticates ==
    \A u \in DOMAIN users :
        (/\ users[u].activated
         /\ users[u].awaiting_second_factor
         /\ users[u].second_factors = {"Totp", "Fido2"}) =>
            /\ LET otc == CompleteWithOneTimeCode(users, u, TRUE)
               IN /\ otc.result = "Authenticated"
                  /\ otc.session
                  /\ ~otc.store[u].awaiting_second_factor
            /\ \A lgn \in LoginResponses :
                  (/\ IsSome(users[u].webauthn_authentication_state)
                   /\ AuthenticateCredential(
                          lgn, Unwrap(users[u].webauthn_authentication_state)).ok) =>
                      LET key == CompleteWithHardwareKey(users, u, lgn)
                      IN /\ key.result = "Authenticated"
                         /\ key.session
                         /\ ~key.store[u].awaiting_second_factor

C5_Witness ==
    \E u \in DOMAIN users :
        /\ users[u].second_factors = {"Totp", "Fido2"}
        /\ last.username = u
        /\ last.op = "complete_with_hardware_key"
        /\ last.result = "Authenticated"
        /\ last.session

\* C6: the solved list never holds a riddle id twice, and a successful
\* advance_on_solve for a riddle that is already in the solved list leaves the
\* solved list, the score and the level as they were.
C6_SolveIsIdempotent ==
    /\ [](\A u \in DOMAIN users : NoDuplicates(users[u].solved))
    /\ [][\A u \in DOMAIN users :
            (/\ last'.op = "advance_on_solve"
             /\ last'.username = u
             /\ last'.result = "ok"
             /\ Contains(users[u].solved, Unwrap(last'.arg))) =>
                /\ users'[u].solved = users[u].solved
                /\ users'[u].score = users[u].score
                /\ users'[u].level = users[u].level]_vars

\* riddle 7 solved from room 1, then again from room 2
C6_Witness ==
    \E u \in DOMAIN users :
        /\ last.op = "advance_on_solve"
        /\ last.username = u
        /\ last.result = "ok"
        /\ last.arg = Some(7)
        /\ users[u].rooms_entered = <<1, 2, 1>>
        /\ users[u].solved = <<7>>

\* C7: a successful advance_on_solve for riddle r, reached through the first
\* doorway to r of the user's room with label d, leaves the user in a room that
\* has the doorway (opposite of d, r) and appends exactly that room to
\* rooms_entered; when no room has that doorway the call does not succeed, and
\* a correct solution then fails with "room behind not found".
C7_MovesToRoomBehind ==
    /\ [][\A u \in DOMAIN users :
            (/\ last'.op = "advance_on_solve"
             /\ last'.username = u
             /\ last'.result = "ok") =>
                LET r == Unwrap(last'.arg)
                    d == FirstDoorwayLabel(RoomById(Unwrap(users[u].in_room)), r)
                IN /\ IsSome(users'[u].in_room)
                   /\ RoomExists(Unwrap(users'[u].in_room))
                   /\ HasDoorway(RoomById(Unwrap(users'[u].in_room)), Opposite(d), r)
                   /\ users'[u].rooms_entered =
                          Append(users[u].rooms_entered, Unwrap(users'[u].in_room))]_vars
    /\ [](\A u \in DOMAIN users, r \in DOMAIN riddles, s \in Submissions :
            (/\ IsSome(users[u].in_room)
             /\ RoomExists(Unwrap(users[u].in_room))
             /\ HasDoorwayTo(RoomById(Unwrap(users[u].in_room)), r)
             /\ ~\E i \in 1..Len(rooms) :
                    HasDoorway(rooms[i],
                               Opposite(FirstDoorwayLabel(
                                   RoomById(Unwrap(users[u].in_room)), r)), r)) =>
                LET done == AdvanceOnSolve(users, rooms, riddles, u, r, s)
                IN /\ ~done.result.ok
                   /\ done.store = users
                   /\ (IF riddles[r].ignore_case = Some(TRUE)
                       THEN ToLower(s) = ToLower(riddles[r].solution)
                       ELSE s = riddles[r].solution)
                          => done.result = Err(RoomBehindNotFoundError))

\* riddle 8 solved from room 3, whose first doorway to it is labelled west
C7_Witness ==
    \E u \in DOMAIN users :
        /\ last.op = "advance_on_solve"
        /\ last.username = u
        /\ last.result = "ok"
        /\ last.arg = Some(8)
        /\ users[u].rooms_entered = <<1, 3, 1>>

\* C8: advance_on_solve with a solution that differs from the riddle's canonical
\* solution (compared without case exactly when ignore_case is set) fails with
\* "riddle not solved", and with a riddle that is not on a doorway of the user's
\* room it fails too; a failed advance_on_solve changes no user document.
C8_FailedSolveChangesNothing ==
    /\ [][(last'.op = "advance_on_solve" /\ last'.result # "ok") =>
              users' = users]_vars
    /\ [](\A u \in DOMAIN users, r \in RiddleIds, s \in Submissions :
            (IsSome(users[u].in_room) /\ RoomExists(Unwrap(users[u].in_room))) =>
                LET done == AdvanceOnSolve(users, rooms, riddles, u, r, s)
                    here == RoomById(Unwrap(users[u].in_room))
                IN /\ ~HasDoorwayTo(here, r) =>
                       (~done.result.ok /\ done.store = users)
                   /\ (/\ HasDoorwayTo(here, r)
                       /\ r \in DOMAIN StoredRiddles
                       /\ ~(IF StoredRiddles[r].ignore_case = Some(TRUE)
                            THEN ToLower(s) = ToLower(StoredRiddles[r].solution)
                            ELSE s = StoredRiddles[r].solution)) =>
                          done = Replied(users, Err(RiddleNotSolvedError)))

C8_Witness ==
    \E u \in DOMAIN users :
        /\ last.op = "advance_on_solve"
        /\ last.username = u
        /\ last.result = RiddleNotSolvedError
        /\ users[u].activated

\* C9: begin_login that answers AwaitingSecondFactor leaves the user awaiting
\* the second factor, and for a user awaiting it with the one-time code enabled
\* a wrong code fails with "wrong credentials", issues no session and changes
\* nothing, so that a correct code still completes the login afterwards.
C9_WrongCodeKeepsAwaiting ==
    \A u \in DOMAIN users :
        /\ (/\ last.op = "begin_login"
            /\ last.username = u
            /\ last.result = "AwaitingSecondFactor") =>
               users[u].awaiting_second_factor
        /\ (/\ last.op = "complete_with_one_time_code"
            /\ last.username = u
            /\ last.result = WrongCredentialsError) =>
               (users[u].awaiting_second_factor /\ ~last.session)
        /\ (users[u].awaiting_second_factor /\ "Totp" \in users[u].second_factors) =>
               LET wrong == CompleteWithOneTimeCode(users, u, FALSE)
               IN /\ wrong.result = WrongCredentialsError
                  /\ ~wrong.session
                  /\ wrong.store = users
                  /\ CompleteWithOneTimeCode(wrong.store, u, TRUE).result
                         = "Authenticated"

C9_Witness ==
    \E u \in DOMAIN users :
        /\ last.op = "complete_with_one_time_code"
        /\ last.username = u
        /\ last.result = WrongCredentialsError
        /\ users[u].awaiting_second_factor

\* C10: a user document has no in_room exactly when it is not activated.
C10_InRoomIffActivated ==
    \A u \in DOMAIN users : IsNone(users[u].in_room) <=> ~users[u].activated

\* an activated user who has moved on from the entry room
C10_Witness ==
    \E u \in DOMAIN users :
        /\ users[u].activated
        /\ IsSome(users[u].in_room)
        /\ last.op = "advance_on_solve"
        /\ last.result = "ok"

\* C11: a user never has a Registration challenge and an Authentication
\* challenge stored at the same time.
C11_AtMostOneChallenge ==
    \A u \in DOMAIN users :
        ~(/\ IsSome(users[u].webauthn_registration_state)
          /\ IsSome(users[u].webauthn_authentication_state))

\* C12: for an activated user, begin_login with the correct password
\* authenticates and issues a session at once exactly when the user's set of
\* second factors is empty; when it is not empty the call issues no session,
\* leaves the user awaiting the second factor and returns the enabled factors.
C12_SessionAtOnceIffNoFactor ==
    \A u \in DOMAIN users :
        /\ users[u].activated =>
               LET done == BeginLogin(users, u, TRUE)
               IN IF users[u].second_factors = {}
                  THEN /\ done.result = "Authenticated"
                       /\ done.session
                       /\ ~done.store[u].awaiting_second_factor
                  ELSE /\ done.result = "AwaitingSecondFactor"
                       /\ ~done.session
                       /\ done.store[u].awaiting_second_factor
                       /\ done.factors = users[u].second_factors
        /\ (last.op = "begin_login" /\ last.username = u) =>
               /\ last.session <=> last.result = "Authenticated"
               /\ last.session => users[u].second_factors = {}
               /\ last.result = "AwaitingSecondFactor" =>
                      (users[u].second_factors # {} /\ users[u].awaiting_second_factor)

\* a password-only login of a user whose second factors were all switched off
C12_Witness ==
    \E u \in DOMAIN users :
        /\ last.op = "begin_login"
        /\ last.username = u
        /\ last.result = "Authenticated"
        /\ last.session
        /\ users[u].second_factors = {}

\* C13: for a user who is not awaiting the second factor, or who has not
\* enabled the one-time code, complete_with_one_time_code fails with
\* "TOTP missing" whether the code is valid or not, issues no session and
\* leaves every user document as it was.
C13_OneTimeCodeNeedsAwaitingAndFactor ==
    /\ [](\A u \in DOMAIN users, code_ok \in BOOLEAN :
            ~(users[u].awaiting_second_factor /\ "Totp" \in users[u].second_factors) =>
                CompleteWithOneTimeCode(users, u, code_ok)
                    = [store |-> users, result |-> TotpMissingError, session |-> FALSE])
    /\ [][last'.op = "complete_with_one_time_code" => \A u \in DOMAIN users :
            (/\ ~(users[u].awaiting_second_factor /\ "Totp" \in users[u].second_factors)
             /\ complete_with_one_time_code(u, TRUE)) =>
                /\ last'.result = TotpMissingError
                /\ ~last'.session
                /\ users' = users
                /\ issued' = issued]_vars

\* a user awaiting the second factor with only the hardware key enabled
C13_Witness ==
    \E u \in DOMAIN users :
        /\ last.op = "complete_with_one_time_code"
        /\ last.username = u
        /\ last.result = TotpMissingError
        /\ users[u].activated
        /\ users[u].awaiting_second_factor
        /\ "Totp" \notin users[u].second_factors

\* C14: for a user who is not awaiting the second factor, or who has no
\* Authentication challenge stored, complete_with_hardware_key fails with
\* ChallengeNotFound and issues no session whatever the response, a valid one
\* included; authenticate itself answers ChallengeNotFound and writes nothing
\* when the user it is given has no Authentication challenge.
C14_HardwareKeyNeedsAwaitingAndChallenge ==
    /\ [](\A u \in DOMAIN users, lgn \in LoginResponses :
            /\ ~(/\ users[u].awaiting_second_factor
                 /\ IsSome(users[u].webauthn_authentication_state)) =>
                   LET done == CompleteWithHardwareKey(users, u, lgn)
                   IN done.result = "ChallengeNotFound" /\ ~done.session
            /\ IsNone(users[u].webauthn_authentication_state) =>
                   Authenticate(users, users[u], lgn)
                       = Replied(users, Err("ChallengeNotFound")))
    /\ [][last'.op = "complete_with_hardware_key" =>
          \A u \in DOMAIN users, lgn \in LoginResponses :
            (/\ last'.username = u
             /\ ~(/\ users[u].awaiting_second_factor
                  /\ IsSome(users[u].webauthn_authentication_state))
             /\ complete_with_hardware_key(u, lgn)) =>
                /\ last'.result = "ChallengeNotFound"
                /\ ~last'.session
                /\ issued' = issued]_vars

\* a challenge is stored, but the login was completed with the one-time code
C14_Witness ==
    \E u \in DOMAIN users :
        /\ last.op = "complete_with_hardware_key"
        /\ last.username = u
        /\ last.result = "ChallengeNotFound"
        /\ ~users[u].awaiting_second_factor
        /\ IsSome(users[u].webauthn_authentication_state)

\* the counter stored with the user's first credential of that id
StoredCounter(user, cred_id) ==
    LET i == CHOOSE i \in 1..Len(user.webauthn_credentials) :
                /\ user.webauthn_credentials[i].cred_id = cred_id
                /\ \A j \in 1..(i - 1) : user.webauthn_credentials[j].cred_id # cred_id
    IN user.webauthn_credentials[i].counter

\* a complete_with_hardware_key step that gets as far as verifying the
\* response, for a credential the user has registered
VerifiesResponse(u, lgn) ==
    /\ last'.username = u
    /\ users[u].awaiting_second_factor
    /\ IsSome(users[u].webauthn_authentication_state)
    /\ lgn.cred_id \in CredIdsOf(users[u].webauthn_credentials)
    /\ complete_with_hardware_key(u, lgn)

C16_FinishReportsVerification ==
    [][last'.op = "register_hardware_key_finish" =>
       \A u \in DOMAIN users, reg \in RegisterResponses :
         (/\ IsSome(users[u].webauthn_registration_state)
          /\ register_hardware_key_finish(u, reg)) =>
            LET rs == Unwrap(users[u].webauthn_registration_state)
            IN IF RegisterCredential(reg, rs).ok
               THEN /\ last'.result = "ok"
                    /\ users'[u].webauthn_credentials
                           = Append(users[u].webauthn_credentials,
                                    Credential(reg.cred_id, 0))
               ELSE /\ last'.result # "ok"
                    /\ users'[u].webauthn_credentials
                           = users[u].webauthn_credentials]_vars

\* C17: no user's credential list holds two credentials with the same id, and
\* a register_hardware_key_finish whose response carries an id that is already
\* registered leaves the list as it was.
C17_NoCredentialTwice ==
    /\ [](\A u \in DOMAIN users :
            \A i, j \in 1..Len(users[u].webauthn_credentials) :
                users[u].webauthn_credentials[i].cred_id
                    = users[u].webauthn_credentials[j].cred_id => i = j)
    /\ [][last'.op = "register_hardware_key_finish" =>
          \A u \in DOMAIN users, reg \in RegisterResponses :
            (/\ reg.cred_id \in CredIdsOf(users[u].webauthn_credentials)
             /\ register_hardware_key_finish(u, reg)) =>
                users'[u].webauthn_credentials = users[u].webauthn_credentials]_vars

\* C18: a guarded update answers Ok only when a document matched its guard:
\* for a user who is not activated none of set_user_solved,
\* set_user_awaiting_2fa, login_user, save_webauthn_registration_state,
\* save_webauthn_registration and rewrite_user_score answers Ok, and for a
\* user who is already activated activate_user does not answer Ok.
C18_GuardFailureIsError ==
    \A u \in DOMAIN users :
        /\ ~users[u].activated =>
               /\ ~SetUserSolved(users, users[u].solved, users[u]).result.ok
               /\ ~SetUserAwaiting2fa(users, users[u]).result.ok
               /\ ~LoginUser(users, users[u]).result.ok
               /\ ~SaveWebauthnRegistrationState(
                       users, u, GenerateChallengeRegisterOptions(1, None)).result.ok
               /\ ~SaveWebauthnRegistration(
                       users, u, users[u].webauthn_credentials).result.ok
               /\ ~RewriteUserScore(users, users[u]).result.ok
        /\ users[u].activated => ~ActivateUser(users, rooms, users[u]).result.ok

RECURSIVE SumAwards(_)
\* the awards of the riddles of a solved list
SumAwards(solved) ==
    IF solved = <<>> THEN 0
    ELSE Award(riddles[Head(solved)]) + SumAwards(Tail(solved))

\* C19: two advance_on_solve requests for the same user that read the same
\* user document do not both succeed; the solved list holds the riddle of
\* every request that succeeded, holds no riddle twice, and the score and the
\* level are the awards of the riddles in it, each counted once.
C19_NoLostSolve ==
    /\ \A a, b \in DOMAIN inflight :
          (/\ a # b
           /\ inflight[a].op = "advance_on_solve"
           /\ inflight[b].op = "advance_on_solve"
           /\ inflight[a].username = inflight[b].username
           /\ inflight[a].result = "ok"
           /\ inflight[b].result = "ok") =>
              inflight[a].seen # inflight[b].seen
    /\ \A a \in DOMAIN inflight :
          (inflight[a].op = "advance_on_solve" /\ inflight[a].result = "ok") =>
              Contains(users[inflight[a].username].solved, Unwrap(inflight[a].arg))
    /\ \A u \in DOMAIN users :
          /\ NoDuplicates(users[u].solved)
          /\ users[u].score = SumAwards(users[u].solved)
          /\ users[u].level = SumAwards(users[u].solved)

\* C20: of two register_hardware_key_finish requests submitted against the
\* same stored Registration challenge of one user at most one succeeds, and
\* the other fails with ChallengeNotFound.
C20_OneRequestConsumesChallenge ==
    \A a, b \in DOMAIN inflight :
        (/\ a # b
         /\ inflight[a].op = "register_hardware_key_finish"
         /\ inflight[b].op = "register_hardware_key_finish"
         /\ inflight[a].username = inflight[b].username
         /\ IsSome(inflight[a].arg)
         /\ inflight[a].arg = inflight[b].arg
         /\ inflight[a].pc = "done"
         /\ inflight[b].pc = "done") =>
            \/ inflight[a].result = "ChallengeNotFound"
            \/ inflight[b].result = "ChallengeNotFound"

\* C21: no step lowers a user's level, and no step other than
\* rewrite_user_score lowers a user's score; the write of set_user_solved
\* in particular stores no level or score below the stored one.
C21_LevelAndScoreNeverDecrease ==
    [][\A u \in DOMAIN users :
         u \in DOMAIN users' =>
            /\ users'[u].level >= users[u].level
            /\ users'[u].score >= users[u].score]_vars

\* C22: while one advance_on_solve request is the only one that has read the
\* user, the stored user shows either everything as the request read it, or
\* the solved list, the level, the score, the room and the visit history all
\* as the request writes them; no state shows some of them written and
\* others not, whether the request is still running or has ended.
C22_SolveAllOrNothing ==
    \A a \in DOMAIN inflight :
        (/\ DOMAIN inflight = {a}
         /\ inflight[a].op = "advance_on_solve"
         /\ IsSome(inflight[a].read)) =>
            LET old == Unwrap(inflight[a].seen)
                read == Unwrap(inflight[a].read)
                now == users[inflight[a].username]
            IN \/ /\ now.solved = old.solved
                  /\ now.level = old.level
                  /\ now.score = old.score
                  /\ now.in_room = old.in_room
                  /\ now.rooms_entered = old.rooms_entered
               \/ /\ now.solved = read.solutions
                  /\ now.level = read.user.level
                  /\ now.score = read.user.score
                  /\ now.in_room = Some(read.room_id)
                  /\ now.rooms_entered = Append(old.rooms_entered, read.room_id)

\* C23: a user's awaiting_second_factor goes from false to true only in a
\* begin_login step for that user that answers AwaitingSecondFactor, and a
\* completion of the second factor issues a session only to a user who was
\* awaiting it.
C23_AwaitingOnlyThroughBeginLogin ==
    [][\A u \in DOMAIN users :
         /\ (u \in DOMAIN users'
             /\ ~users[u].awaiting_second_factor
             /\ users'[u].awaiting_second_factor) =>
                /\ last'.op = "begin_login"
                /\ last'.username = u
                /\ last'.result = "AwaitingSecondFactor"
         /\ (/\ last'.op \in {"complete_with_one_time_code", "complete_with_hardware_key"}
             /\ last'.username = u
             /\ last'.session) => users[u].awaiting_second_factor]_vars

\* C24: after a challenge_register or challenge_authenticate that answered
\* with a challenge, the user's stored state of that kind holds that
\* challenge.
C24_IssuedChallengeIsStored ==
    \A u \in DOMAIN users :
        /\ (/\ last.op = "challenge_register"
            /\ last.username = u
            /\ last.result = "ok") =>
               /\ IsSome(users[u].webauthn_registration_state)
               /\ Unwrap(users[u].webauthn_registration_state).challenge
                      = Unwrap(last.arg)
        /\ (/\ last.op = "challenge_authenticate"
            /\ last.username = u
            /\ last.result = "ok") =>
               /\ IsSome(users[u].webauthn_authentication_state)
               /\ Unwrap(users[u].webauthn_authentication_state).challenge
                      = Unwrap(last.arg)

\* C25: for a user who still has a challenge stored, issuing a challenge of
\* the same kind succeeds and stores the new challenge in place of the old
\* one; after it a response to the old challenge enrols no credential and
\* authenticates nobody, while a response to the new challenge that verifies
\* enrols its credential, or authenticates the user who is awaiting the
\* second factor.
C25_ReissueReplacesChallenge ==
    /\ [](\A u \in DOMAIN users : \A c \in Challenges :
            (/\ users[u].activated
             /\ IsSome(users[u].webauthn_registration_state)
             /\ c # Unwrap(users[u].webauthn_registration_state).challenge) =>
                LET fresh == ChallengeRegister(users, u, c)
                    creds == users[u].webauthn_credentials
                IN /\ fresh.result = Ok([challenge |-> c])
                   /\ Unwrap(fresh.store[u].webauthn_registration_state).challenge = c
                   /\ \A reg \in RegisterResponses :
                        LET after == Register(fresh.store, u, reg).store[u]
                        IN /\ reg.challenge # c =>
                                 after.webauthn_credentials = creds
                           /\ (/\ reg.challenge = c
                               /\ reg.valid
                               /\ reg.cred_id \notin CredIdsOf(creds)) =>
                                 after.webauthn_credentials
                                     = Append(creds, Credential(reg.cred_id, 0)))
    /\ [](\A u \in DOMAIN users : \A c \in Challenges :
            (/\ users[u].activated
             /\ users[u].awaiting_second_factor
             /\ IsSome(users[u].webauthn_authentication_state)
             /\ c # Unwrap(users[u].webauthn_authentication_state).challenge) =>
                LET fresh == ChallengeAuthenticate(users, u, c)
                IN /\ fresh.result = Ok([challenge |-> c])
                   /\ Unwrap(fresh.store[u].webauthn_authentication_state).challenge = c
                   /\ \A lgn \in LoginResponses :
                        LET done == CompleteWithHardwareKey(fresh.store, u, lgn)
                        IN /\ lgn.challenge # c =>
                                 (done.result # "Authenticated" /\ ~done.session)
                           /\ (/\ lgn.challenge = c
                               /\ lgn.valid
                               /\ lgn.cred_id \in CredIdsOf(users[u].webauthn_credentials)
                               /\ lgn.counter
                                    > StoredCounter(users[u], lgn.cred_id)) =>
                                 (done.result = "Authenticated" /\ done.session))
    /\ [][\A u \in DOMAIN users :
            (/\ last'.op = "register_hardware_key_begin"
             /\ last'.username = u
             /\ last'.result = "ok") =>
                users'[u].webauthn_registration_state
                    = Some(GenerateChallengeRegisterOptions(
                               nextChallenge,
                               IF Len(users[u].webauthn_credentials) > 0
                               THEN Some(CredIdsOf(users[u].webauthn_credentials))
                               ELSE None))]_vars

\* the second registration challenge, issued while the first was never answered
C25_Witness ==
    \E u \in DOMAIN users :
        /\ last.op = "register_hardware_key_begin"
        /\ last.username = u
        /\ last.result = "ok"
        /\ users[u].webauthn_registration_state
               = Some(GenerateChallengeRegisterOptions(2, None))
        /\ users[u].webauthn_credentials = <<>>

\* the indexes of the rooms marked as entry
EntryRooms == {i \in 1..Len(rooms) : rooms[i].entry = Some(TRUE)}

\* C26: activate_user on a user who is not activated, when an entry room
\* exists, leaves the stored user activated, in the entry room, with
\* rooms_entered ending in that room, ten recovery keys, a one-time-code
\* secret and no pin; when no entry room exists it fails with RoomNotFound
\* and changes neither the stored users nor the caller's user value.
C26_ActivateSetsUpOrFails ==
    /\ [](\A u \in DOMAIN users :
            ~users[u].activated =>
                LET done == ActivateUser(users, rooms, users[u])
                    stored == done.store[u]
                IN IF EntryRooms # {}
                   THEN /\ done.result.ok
                        /\ stored.activated
                        /\ \E i \in EntryRooms :
                              /\ stored.in_room = Some(rooms[i].id)
                              /\ Len(stored.rooms_entered) > 0
                              /\ stored.rooms_entered[Len(stored.rooms_entered)]
                                     = rooms[i].id
                        /\ Len(stored.recovery_keys) = 10
                        /\ stored.totp_key # <<>>
                        /\ IsNone(stored.pin)
                   ELSE /\ done.result = Err(RoomNotFoundError)
                        /\ done.store = users
                        /\ done.user = users[u])
    /\ [][\A u \in DOMAIN users :
            (/\ last'.op = "activate_user"
             /\ last'.username = u
             /\ ~users[u].activated
             /\ last'.result \in {"ok", RoomNotFoundError}) =>
                IF EntryRooms # {}
                THEN /\ last'.result = "ok"
                     /\ users'[u].activated
                     /\ \E i \in EntryRooms :
                           users'[u].in_room = Some(rooms[i].id)
                     /\ Len(users'[u].recovery_keys) = 10
                     /\ users'[u].totp_key # <<>>
                     /\ IsNone(users'[u].pin)
                ELSE /\ last'.result = RoomNotFoundError
                     /\ users' = users]_vars

\* a user just activated into the entry room
C26_Witness ==
    \E u \in DOMAIN users :
        /\ last.op = "activate_user"
        /\ last.username = u
        /\ last.result = "ok"
        /\ users[u].activated
        /\ users[u].in_room = Some(1)
        /\ users[u].rooms_entered = <<1>>
        /\ Len(users[u].recovery_keys) = 10
        /\ IsNone(users[u].pin)

\* the positions of the doorways of room that lead to riddle_id
DoorwaysTo(room, riddle_id) ==
    {k \in 1..Len(room.neighbors) : room.neighbors[k].riddle_id = riddle_id}

\* the least member of a non-empty set of positions
Least(positions) == CHOOSE k \in positions : \A j \in positions : k <= j

\* C27: when the user's room has two or more doorways with the same riddle id,
\* is_riddle_accessible answers with the riddle id and the user and no error,
\* and a successful advance_on_solve for that riddle moves the user to the room
\* found behind the first of these doorways in list order.
C27_FirstMatchingDoorwayWins ==
    /\ [](\A u \in DOMAIN users, r \in RiddleIds :
            (/\ IsSome(users[u].in_room)
             /\ RoomExists(Unwrap(users[u].in_room))
             /\ Cardinality(DoorwaysTo(RoomById(Unwrap(users[u].in_room)), r)) >= 2) =>
                IsRiddleAccessible(users, rooms, riddles, r, u)
                    = Triple(Some(r), Some(users[u]), None))
    /\ [][\A u \in DOMAIN users :
            (/\ last'.op = "advance_on_solve"
             /\ last'.username = u
             /\ last'.result = "ok"
             /\ Cardinality(DoorwaysTo(RoomById(Unwrap(users[u].in_room)),
                                       Unwrap(last'.arg))) >= 2) =>
                LET r == Unwrap(last'.arg)
                    here == RoomById(Unwrap(users[u].in_room))
                    first == here.neighbors[Least(DoorwaysTo(here, r))]
                    behind == GetRoomBehind(rooms, Opposite(first.direction), r)
                IN /\ behind.ok
                   /\ users'[u].in_room = Some(behind.val.id)]_vars

\* riddle 8 asked for from room 3, which has it on its west and south doorways
C27_Witness ==
    \E u \in DOMAIN users :
        /\ last.op = "is_riddle_accessible"
        /\ last.username = u
        /\ last.arg = Some(8)
        /\ last.result = "ok"
        /\ users[u].in_room = Some(3)
        /\ Cardinality(DoorwaysTo(RoomById(3), 8)) = 2

\* the errors of the store and of token signing
InfrastructureErrors ==
    {"MongoError", "MongoQueryError", "DatabaseQueryError", "JWTTokenCreationError"}

\* C28: handle_rejection answers every infrastructure error (MongoError,
\* MongoQueryError, DatabaseQueryError, JWTTokenCreationError) with a 5xx
\* status and the message "Internal Server Error", and every other Error with
\* a 4xx status; the text of a store failure is in no response message.
C28_InfrastructureIsGeneric5xx ==
    (last.op = "handle_rejection" /\ Unwrap(last.arg).kind = "Error") =>
        LET e == Unwrap(Unwrap(last.arg).error)
            response == last.result
        IN /\ IF e.variant \in InfrastructureErrors
              THEN /\ response.code \in 500..599
                   /\ response.message = <<"Internal Server Error">>
              ELSE response.code \in 400..499
           /\ \A i \in 1..Len(response.message) :
                 response.message[i] \notin FailureTexts

\* the rooms collection as it is, and with rooms taken out of it
RoomCollections == {SubSeq(rooms, k, Len(rooms)) : k \in 1..(Len(rooms) + 1)}

\* C29: is_riddle_accessible changes no user, room or riddle document, and
\* the triple it returns has either the riddle id and the user and no error
\* message, or an error message and neither riddle id nor user, whether the
\* user is unknown, has no room, is in a room that is missing, has no doorway
\* to the riddle, or has one.
C29_AccessCheckIsPureAndWhole ==
    /\ [](\A name \in Usernames, r \in RiddleIds, coll_rooms \in RoomCollections :
            LET access == IsRiddleAccessible(users, coll_rooms, riddles, r, name)
            IN \/ /\ IsSome(access.riddle_id)
                  /\ IsSome(access.user)
                  /\ IsNone(access.message)
               \/ /\ IsNone(access.riddle_id)
                  /\ IsNone(access.user)
                  /\ IsSome(access.message))
    /\ [][last'.op = "is_riddle_accessible" =>
             /\ users' = users
             /\ rooms' = rooms
             /\ riddles' = riddles]_vars

\* the check refused a riddle that is on no doorway of the user's room
C29_Witness ==
    \E u \in DOMAIN users :
        /\ last.op = "is_riddle_accessible"
        /\ last.username = u
        /\ last.result = DoorwayNotAccessibleMessage
        /\ IsSome(users[u].in_room)
        /\ ~HasDoorwayTo(RoomById(Unwrap(users[u].in_room)), Unwrap(last.arg))

====
